---- MODULE Spec2Model ----
(***************************************************************************)
(* A model of tools/css_ts_setup.py: the comment-stripping JSON reader,    *)
(* the three config mutators (update_deno_config, update_package_json,     *)
(* update_vite_config), resolve_mode and the cli orchestrator.             *)
(*                                                                         *)
(* Text is a sequence of symbols.  A symbol is either one lexically        *)
(* significant character (a quote, a slash, a brace, a newline, ...) or a  *)
(* word of ordinary characters that the code never looks into ("imports", *)
(* "sveltekit", ...).  Every scan and every pattern of the code is stated  *)
(* over these symbols exactly as the code states it over characters.       *)
(***************************************************************************)
EXTENDS Naturals, Sequences, FiniteSets, TLC

VARIABLES
  files,     \* the project directory: file name -> [exists, text, writes]
  files0,    \* the project directory as the run found it
  tool_ver,  \* the "version" field of the tool's own deno.json ("" if none)
  opts,      \* the cli flags [deno_mode, npm_mode, no_install]
  pc,        \* the position of the cli run (or of the harness)
  mode,      \* resolve_mode's answer: "deno", "npm" or "None"
  summary,   \* cli's summary list
  warnings,  \* cli's warnings list
  commands,  \* the external commands started, in order
  log,       \* one record per call of a mutator
  value,     \* strip_json_comments: its argument
  scan       \* strip_json_comments: its locals [i, in_string, in_single, in_multi, output]

vars == <<files, files0, tool_ver, opts, pc, mode, summary, warnings, commands, log, value, scan>>

(***************************************************************************)
(* Bounds of the model.                                                    *)
(***************************************************************************)
\* strip_json_comments is run on every text of at most MaxLen characters.
MaxLen == 6
\* A mutator is called up to MaxCalls times in a row on the same directory.
MaxCalls == 2
\* A vite.config text is made of at most MaxSegs lines of VitePieces.
MaxSegs == 3

(***************************************************************************)
(* Symbols.                                                                *)
(***************************************************************************)
QUOTE == "\""
BSLASH == "\\"
SLASH == "/"
STAR == "*"
NL == "\n"
SP == " "

\* The characters strip_json_comments tells apart, and one ordinary one.
StripChars == {QUOTE, BSLASH, SLASH, STAR, NL, "a"}

(***************************************************************************)
(* strip_json_comments (lines 49-106).  scan.i is the code's i plus one:   *)
(* sequences start at 1.                                                   *)
(***************************************************************************)
StripInit == [i |-> 1, in_string |-> FALSE, in_single |-> FALSE,
              in_multi |-> FALSE, output |-> <<>>]

\* StripStep with the escape handling of lines 76-80 left out: a backslash
\* inside a string is copied like any other character.
StripStepNoEscape(v, st) ==
  LET char == v[st.i]
      nxt  == IF st.i + 1 <= Len(v) THEN v[st.i + 1] ELSE ""
  IN  IF st.in_single
      THEN IF char = NL
           THEN [st EXCEPT !.in_single = FALSE, !.output = Append(@, char), !.i = @ + 1]
           ELSE [st EXCEPT !.i = @ + 1]
      ELSE IF st.in_multi
      THEN IF char = STAR /\ nxt = SLASH
           THEN [st EXCEPT !.in_multi = FALSE, !.i = @ + 2]
           ELSE [st EXCEPT !.i = @ + 1]
      ELSE IF st.in_string
      THEN [st EXCEPT !.in_string = (char # QUOTE), !.output = Append(@, char), !.i = @ + 1]
      ELSE IF char = QUOTE
      THEN [st EXCEPT !.in_string = TRUE, !.output = Append(@, char), !.i = @ + 1]
      ELSE IF char = SLASH /\ nxt = SLASH
      THEN [st EXCEPT !.in_single = TRUE, !.i = @ + 2]
      ELSE IF char = SLASH /\ nxt = STAR
      THEN [st EXCEPT !.in_multi = TRUE, !.i = @ + 2]
      ELSE [st EXCEPT !.output = Append(@, char), !.i = @ + 1]

\* One iteration of the while loop, lines 56-104.
StripStep(v, st) ==
  LET char == v[st.i]
      nxt  == IF st.i + 1 <= Len(v) THEN v[st.i + 1] ELSE ""
  IN  IF st.in_single
      THEN IF char = NL
           THEN [st EXCEPT !.in_single = FALSE, !.output = Append(@, char), !.i = @ + 1]
           ELSE [st EXCEPT !.i = @ + 1]
      ELSE IF st.in_multi
      THEN IF char = STAR /\ nxt = SLASH
           THEN [st EXCEPT !.in_multi = FALSE, !.i = @ + 2]
           ELSE [st EXCEPT !.i = @ + 1]
      ELSE IF st.in_string
      THEN IF char = BSLASH /\ nxt # ""
           THEN [st EXCEPT !.output = @ \o <<char, nxt>>, !.i = @ + 2]
           ELSE [st EXCEPT !.in_string = (char # QUOTE), !.output = Append(@, char),
                           !.i = @ + 1]
      ELSE IF char = QUOTE
      THEN [st EXCEPT !.in_string = TRUE, !.output = Append(@, char), !.i = @ + 1]
      ELSE IF char = SLASH /\ nxt = SLASH
      THEN [st EXCEPT !.in_single = TRUE, !.i = @ + 2]
      ELSE IF char = SLASH /\ nxt = STAR
      THEN [st EXCEPT !.in_multi = TRUE, !.i = @ + 2]
      ELSE [st EXCEPT !.output = Append(@, char), !.i = @ + 1]

RECURSIVE StripLoop(_, _)
StripLoop(v, st) == IF st.i <= Len(v) THEN StripLoop(v, StripStep(v, st)) ELSE st

\* The whole function: the loop run to its end, then "".join(output).
strip_json_comments(v) == StripLoop(v, StripInit).output

(***************************************************************************)
(* JSON values, as json.loads builds them and json.dumps reads them        *)
(* (lines 110, 139, 182, 199, 207).  A dict is the sequence of its items   *)
(* in insertion order, as a Python dict keeps them; a string is the        *)
(* sequence of its symbols.                                                *)
(***************************************************************************)
JStr(s) == [t |-> "str", s |-> s]
JAtom(a) == [t |-> "atom", a |-> a]
JObj(items) == [t |-> "obj", items |-> items]
JArr(items) == [t |-> "arr", items |-> items]
\* Python's None, as dict.get answers for a missing key.
JNone == [t |-> "none"]

\* isinstance(x, dict)
IsDict(x) == x.t = "obj"

\* key in d
DictHas(d, k) == \E i \in 1..Len(d.items) : d.items[i].k = k

\* d.get(k)
DictGet(d, k) ==
  IF DictHas(d, k)
  THEN d.items[CHOOSE i \in 1..Len(d.items) : d.items[i].k = k].v
  ELSE JNone

\* d[k] = v : an existing key keeps its place, a new key goes last.
DictSet(d, k, v) ==
  IF DictHas(d, k)
  THEN JObj([i \in 1..Len(d.items) |->
               IF d.items[i].k = k THEN [k |-> k, v |-> v] ELSE d.items[i]])
  ELSE JObj(Append(d.items, [k |-> k, v |-> v]))

(***************************************************************************)
(* json.loads over symbols.  The grammar is JSON's: objects, arrays,       *)
(* strings with backslash escapes, the atoms, whitespace between tokens,   *)
(* no trailing comma, nothing after the value.                             *)
(***************************************************************************)
JsonWs == {SP, NL}
JsonAtoms == {"1", "null", "true"}
\* The escapes that stand for the escaped character itself.
JsonSelfEscapes == {QUOTE, BSLASH, SLASH}

ParseFail == [ok |-> FALSE, v |-> JNone, p |-> 0]
ParseOk(v, p) == [ok |-> TRUE, v |-> v, p |-> p]

RECURSIVE SkipWs(_, _)
SkipWs(t, p) == IF p <= Len(t) /\ t[p] \in JsonWs THEN SkipWs(t, p + 1) ELSE p

\* A string's content from position p (after the opening quote) up to the
\* closing quote; a raw newline or an unknown escape is an error.
RECURSIVE ParseChars(_, _, _)
ParseChars(t, p, acc) ==
  IF p > Len(t) THEN ParseFail
  ELSE IF t[p] = QUOTE THEN ParseOk(acc, p + 1)
  ELSE IF t[p] = NL THEN ParseFail
  ELSE IF t[p] = BSLASH
  THEN IF p + 1 <= Len(t) /\ t[p + 1] \in JsonSelfEscapes
       THEN ParseChars(t, p + 2, Append(acc, t[p + 1]))
       ELSE ParseFail
  ELSE ParseChars(t, p + 1, Append(acc, t[p]))

RECURSIVE ParseValue(_, _)
RECURSIVE ParseMembers(_, _, _)
RECURSIVE ParseElements(_, _, _)

ParseValue(t, p0) ==
  LET p == SkipWs(t, p0)
  IN  IF p > Len(t) THEN ParseFail
      ELSE IF t[p] = QUOTE
      THEN LET r == ParseChars(t, p + 1, <<>>)
           IN  IF r.ok THEN ParseOk(JStr(r.v), r.p) ELSE ParseFail
      ELSE IF t[p] = "{"
      THEN LET q == SkipWs(t, p + 1)
           IN  IF q <= Len(t) /\ t[q] = "}" THEN ParseOk(JObj(<<>>), q + 1)
               ELSE ParseMembers(t, q, JObj(<<>>))
      ELSE IF t[p] = "["
      THEN LET q == SkipWs(t, p + 1)
           IN  IF q <= Len(t) /\ t[q] = "]" THEN ParseOk(JArr(<<>>), q + 1)
               ELSE ParseElements(t, q, <<>>)
      ELSE IF t[p] \in JsonAtoms THEN ParseOk(JAtom(t[p]), p + 1)
      ELSE ParseFail

\* The members of an object from position p (at a key); a repeated key keeps
\* its last value.
ParseMembers(t, p, d) ==
  IF p > Len(t) \/ t[p] # QUOTE THEN ParseFail
  ELSE LET k == ParseChars(t, p + 1, <<>>)
       IN  IF ~k.ok THEN ParseFail
           ELSE LET c == SkipWs(t, k.p)
                IN  IF c > Len(t) \/ t[c] # ":" THEN ParseFail
                    ELSE LET v == ParseValue(t, c + 1)
                         IN  IF ~v.ok THEN ParseFail
                             ELSE LET e  == SkipWs(t, v.p)
                                      d2 == DictSet(d, k.v, v.v)
                                  IN  IF e > Len(t) THEN ParseFail
                                      ELSE IF t[e] = "}" THEN ParseOk(d2, e + 1)
                                      ELSE IF t[e] = ","
                                      THEN ParseMembers(t, SkipWs(t, e + 1), d2)
                                      ELSE ParseFail

ParseElements(t, p, items) ==
  LET v == ParseValue(t, p)
  IN  IF ~v.ok THEN ParseFail
      ELSE LET e == SkipWs(t, v.p)
           IN  IF e > Len(t) THEN ParseFail
               ELSE IF t[e] = "]" THEN ParseOk(JArr(Append(items, v.v)), e + 1)
               ELSE IF t[e] = "," THEN ParseElements(t, e + 1, Append(items, v.v))
               ELSE ParseFail

\* json.loads(text): [ok, v]; ok = FALSE stands for the JSONDecodeError.
json_loads(t) ==
  LET r == ParseValue(t, 1)
  IN  IF r.ok /\ SkipWs(t, r.p) > Len(t) THEN [ok |-> TRUE, v |-> r.v]
      ELSE [ok |-> FALSE, v |-> JNone]

\* parse_json_like (lines 109-110)
parse_json_like(t) == json_loads(strip_json_comments(t))

(***************************************************************************)
(* json.dumps(value, indent=2) over symbols.                               *)
(***************************************************************************)
RECURSIVE Indent(_)
Indent(level) == IF level = 0 THEN <<>> ELSE <<SP, SP>> \o Indent(level - 1)

RECURSIVE EscapeChars(_)
EscapeChars(s) ==
  IF s = <<>> THEN <<>>
  ELSE (IF Head(s) \in {QUOTE, BSLASH} THEN <<BSLASH, Head(s)>> ELSE <<Head(s)>>)
       \o EscapeChars(Tail(s))

DumpString(s) == <<QUOTE>> \o EscapeChars(s) \o <<QUOTE>>

RECURSIVE Dump(_, _)
RECURSIVE DumpItems(_, _, _)
Dump(v, level) ==
  IF v.t = "str" THEN DumpString(v.s)
  ELSE IF v.t = "atom" THEN <<v.a>>
  ELSE IF v.items = <<>> THEN (IF v.t = "obj" THEN <<"{", "}">> ELSE <<"[", "]">>)
  ELSE <<(IF v.t = "obj" THEN "{" ELSE "[")>>
       \o DumpItems(v, 1, level + 1)
       \o <<NL>> \o Indent(level) \o <<(IF v.t = "obj" THEN "}" ELSE "]")>>

\* The items of a non-empty dict or list from the i-th on, each on a line of
\* its own at the given indent level, separated by commas.
DumpItems(v, i, level) ==
  IF i > Len(v.items) THEN <<>>
  ELSE (IF i > 1 THEN <<",">> ELSE <<>>)
       \o <<NL>> \o Indent(level)
       \o (IF v.t = "obj"
           THEN DumpString(v.items[i].k) \o <<":", SP>> \o Dump(v.items[i].v, level)
           ELSE Dump(v.items[i], level))
       \o DumpItems(v, i + 1, level)

json_dumps(v) == Dump(v, 0)

(***************************************************************************)
(* The program's tables (lines 22-37) and the strings it writes.           *)
(***************************************************************************)
DENO_CONFIG_CANDIDATES == <<"deno.json", "deno.jsonc">>
VITE_CONFIG_CANDIDATES ==
  <<"vite.config.ts", "vite.config.js", "vite.config.mjs", "vite.config.mts",
    "vite.config.cjs">>
LockFiles == {"pnpm-lock.yaml", "yarn.lock", "bun.lockb"}

\* "@kt-tools/css-ts" and "@jsr/kt-tools__css-ts"
CssTsName == <<"@kt-tools", SLASH, "css-ts">>
JsrName == <<"@jsr", SLASH, "kt-tools__css-ts">>

K_imports == <<"imports">>
K_nodeModulesDir == <<"nodeModulesDir">>
K_dependencies == <<"dependencies">>
V_auto == JStr(<<"auto">>)

\* read_css_ts_specifier (lines 136-145): the versioned specifier when the
\* tool's own deno.json gives a non-empty version, else the unversioned one.
read_css_ts_specifier(ver) ==
  IF ver # "" THEN JStr(<<"npm:@jsr", SLASH, "kt-tools__css-ts@^", ver>>)
  ELSE JStr(<<"npm:@jsr", SLASH, "kt-tools__css-ts">>)

\* required_imports (lines 163-169), in the dict's order.
required_imports(ver) ==
  << [k |-> CssTsName, v |-> read_css_ts_specifier(ver)],
     [k |-> <<"@sveltejs", SLASH, "kit">>,
      v |-> JStr(<<"npm:@sveltejs", SLASH, "kit@^2.50.2">>)],
     [k |-> <<"@sveltejs", SLASH, "vite-plugin-svelte">>,
      v |-> JStr(<<"npm:@sveltejs", SLASH, "vite-plugin-svelte@^6.2.4">>)],
     [k |-> <<"svelte">>, v |-> JStr(<<"npm:svelte@^5.49.2">>)],
     [k |-> <<"vite">>, v |-> JStr(<<"npm:vite@^7.3.1">>)] >>

(***************************************************************************)
(* The file system: only what the code asks of it.                         *)
(***************************************************************************)
\* A file: whether it exists, its text, and how often it has been written.
NoFile == [exists |-> FALSE, text |-> <<>>, writes |-> 0]
File(text) == [exists |-> TRUE, text |-> text, writes |-> 0]

\* find_first (lines 113-118): the first candidate that exists, or "None".
find_first(fs, candidates) ==
  IF \E i \in 1..Len(candidates) : fs[candidates[i]].exists
  THEN candidates[CHOOSE i \in 1..Len(candidates) :
                    /\ fs[candidates[i]].exists
                    /\ \A j \in 1..(i - 1) : ~fs[candidates[j]].exists]
  ELSE "None"

\* path.write_text(text)
WriteText(fs, name, text) ==
  [fs EXCEPT ![name] = [exists |-> TRUE, text |-> text, writes |-> @.writes + 1]]

\* ensure_object (lines 121-125): the target after the call; the object the
\* call returns is DictGet of it at the key.
ensure_object(target, key) ==
  IF ~IsDict(DictGet(target, key)) THEN DictSet(target, key, JObj(<<>>)) ELSE target

(***************************************************************************)
(* What a call of a mutator yields: the UpdateResult it returns (or the    *)
(* exception it raises) and the files after it.                            *)
(***************************************************************************)
Returned(fs, changed, notes, warns, trace) ==
  [outcome |-> "returned", changed |-> changed, notes |-> notes, warnings |-> warns,
   files |-> fs, trace |-> trace]

\* An exception leaves the mutator before any write; no result is returned.
Raised(fs) ==
  [outcome |-> "raised", changed |-> FALSE, notes |-> <<>>, warnings |-> <<>>,
   files |-> fs, trace |-> <<>>]

\* The loop of lines 171-175 without the test of line 172: every required
\* import is set, present or not.
RECURSIVE AddMissingImportsOverwriting(_, _, _)
AddMissingImportsOverwriting(acc, required, i) ==
  IF i > Len(required) THEN acc
  ELSE AddMissingImportsOverwriting(
         [imports |-> DictSet(acc.imports, required[i].k, required[i].v),
          changed |-> acc.changed \/ ~DictHas(acc.imports, required[i].k)
                      \/ DictGet(acc.imports, required[i].k) # required[i].v],
         required, i + 1)

\* The loop of lines 171-175 from the i-th required import on:
\* [imports, changed].
RECURSIVE AddMissingImports(_, _, _)
AddMissingImports(acc, required, i) ==
  IF i > Len(required) THEN acc
  ELSE IF ~DictHas(acc.imports, required[i].k)
  THEN AddMissingImports([imports |-> DictSet(acc.imports, required[i].k, required[i].v),
                          changed |-> TRUE], required, i + 1)
  ELSE AddMissingImports(acc, required, i + 1)

\* update_deno_config (lines 148-188)
update_deno_config(fs, ver) ==
  LET deno_path == find_first(fs, DENO_CONFIG_CANDIDATES)
  IN  IF deno_path = "None"
      THEN Returned(fs, FALSE, <<>>, <<<<"No deno.json/deno.jsonc found. Skipped Deno import map updates.">>>>, <<>>)
      ELSE
      LET parsed == parse_json_like(fs[deno_path].text)
      IN  IF ~parsed.ok
          THEN Returned(fs, FALSE, <<>>, <<<<"Failed to parse", deno_path>>>>, <<>>)
          ELSE IF ~IsDict(parsed.v) THEN Raised(fs)
          ELSE
          LET config1 == ensure_object(parsed.v, K_imports)
              added   == AddMissingImports([imports |-> DictGet(config1, K_imports),
                                            changed |-> FALSE],
                                           required_imports(ver), 1)
              config2 == DictSet(config1, K_imports, added.imports)
              setDir  == DictGet(config2, K_nodeModulesDir) # V_auto
              config3 == IF setDir THEN DictSet(config2, K_nodeModulesDir, V_auto)
                         ELSE config2
              changed == added.changed \/ setDir
          IN  IF changed
              THEN Returned(WriteText(fs, deno_path, json_dumps(config3) \o <<NL>>),
                            TRUE,
                            <<<<"Updated with import map entries and nodeModulesDir.", deno_path>>>>,
                            IF deno_path = "deno.jsonc"
                            THEN <<<<"Rewrote as JSON (comments removed).", deno_path>>>>
                            ELSE <<>>,
                            <<>>)
              ELSE Returned(fs, FALSE, <<>>, <<>>, <<>>)

\* update_package_json without the try of lines 198-202: the error of
\* json.loads leaves the mutator.
update_package_json_uncaught(fs, ver) ==
  IF ~fs["package.json"].exists
  THEN Returned(fs, FALSE, <<>>, <<<<"No package.json found. Skipped npm dependency updates.">>>>, <<>>)
  ELSE
  LET parsed == json_loads(fs["package.json"].text)
  IN  IF ~parsed.ok \/ ~IsDict(parsed.v) THEN Raised(fs)
      ELSE
      LET pkg1 == ensure_object(parsed.v, K_dependencies)
          deps == DictGet(pkg1, K_dependencies)
      IN  IF ~DictHas(deps, CssTsName)
          THEN LET pkg2 == DictSet(pkg1, K_dependencies,
                                   DictSet(deps, CssTsName, read_css_ts_specifier(ver)))
               IN  Returned(WriteText(fs, "package.json", json_dumps(pkg2) \o <<NL>>),
                            TRUE,
                            <<<<"Added @kt-tools/css-ts to dependencies in package.json.">>>>,
                            <<>>, <<>>)
          ELSE Returned(fs, FALSE, <<>>, <<>>, <<>>)

\* update_package_json (lines 191-211)
update_package_json(fs, ver) ==
  IF ~fs["package.json"].exists
  THEN Returned(fs, FALSE, <<>>, <<<<"No package.json found. Skipped npm dependency updates.">>>>, <<>>)
  ELSE
  LET parsed == json_loads(fs["package.json"].text)
  IN  IF ~parsed.ok
      THEN Returned(fs, FALSE, <<>>, <<<<"Failed to parse package.json. Skipped dependency updates.">>>>, <<>>)
      ELSE IF ~IsDict(parsed.v) THEN Raised(fs)
      ELSE
      LET pkg1 == ensure_object(parsed.v, K_dependencies)
          deps == DictGet(pkg1, K_dependencies)
      IN  IF ~DictHas(deps, CssTsName)
          THEN LET pkg2 == DictSet(pkg1, K_dependencies,
                                   DictSet(deps, CssTsName, read_css_ts_specifier(ver)))
               IN  Returned(WriteText(fs, "package.json", json_dumps(pkg2) \o <<NL>>),
                            TRUE,
                            <<<<"Added @kt-tools/css-ts to dependencies in package.json.">>>>,
                            <<>>, <<>>)
          ELSE Returned(fs, FALSE, <<>>, <<>>, <<>>)

(***************************************************************************)
(* The patterns of insert_import and update_vite_config over symbols.      *)
(* A pattern is a sequence of literal symbols and WS, which stands for     *)
(* \s* ; each \s* of the code is followed by a literal that is no          *)
(* whitespace, so the longest run of whitespace is the only candidate.     *)
(***************************************************************************)
WS == "\\s*"
ReSpace == {SP, NL}

RECURSIVE SkipSpace(_, _)
SkipSpace(t, p) == IF p <= Len(t) /\ t[p] \in ReSpace THEN SkipSpace(t, p + 1) ELSE p

\* The position after a match of pat that starts at p, or 0 if there is none.
RECURSIVE MatchAt(_, _, _)
MatchAt(t, p, pat) ==
  IF pat = <<>> THEN p
  ELSE IF Head(pat) = WS THEN MatchAt(t, SkipSpace(t, p), Tail(pat))
  ELSE IF p <= Len(t) /\ t[p] = Head(pat) THEN MatchAt(t, p + 1, Tail(pat))
  ELSE 0

\* re.search(pat, t): [found, start, stop], the match being t[start..stop-1].
re_search(pat, t) ==
  IF \E p \in 1..Len(t) : MatchAt(t, p, pat) # 0
  THEN LET s == CHOOSE p \in 1..Len(t) :
                  /\ MatchAt(t, p, pat) # 0
                  /\ \A q \in 1..(p - 1) : MatchAt(t, q, pat) = 0
       IN  [found |-> TRUE, start |-> s, stop |-> MatchAt(t, s, pat)]
  ELSE [found |-> FALSE, start |-> 0, stop |-> 0]

\* re.sub(pat, repl, t, count=1)
re_sub_first(pat, repl, t) ==
  LET m == re_search(pat, t)
  IN  IF m.found
      THEN SubSeq(t, 1, m.start - 1) \o repl \o SubSeq(t, m.stop, Len(t))
      ELSE t

\* needle in t
Contains(t, needle) ==
  \E p \in 1..(Len(t) + 1) :
    p + Len(needle) - 1 <= Len(t) /\ SubSeq(t, p, p + Len(needle) - 1) = needle

P_sveltekit == <<"sveltekit", WS, "(", WS, ")">>
P_plugins == <<"plugins", WS, ":", WS, "[">>
P_resolve == <<"resolve", WS, ":", WS, "{">>
P_alias == <<"alias", WS, ":", WS, "{">>
P_defineConfig == <<"defineConfig", "(", WS, "{">>

\* 'import ct from "@kt-tools/css-ts";'
ImportLine ==
  <<"import", SP, "ct", SP, "from", SP, QUOTE>> \o CssTsName \o <<QUOTE, ";">>
\* '"@kt-tools/css-ts": "@jsr/kt-tools__css-ts",'
AliasEntry ==
  <<QUOTE>> \o CssTsName \o <<QUOTE, ":", SP, QUOTE>> \o JsrName \o <<QUOTE, ",">>
\* "ct.vite(), sveltekit()"
SveltekitRepl == <<"ct.vite", "(", ")", ",", SP, "sveltekit", "(", ")">>
\* "plugins: [ct.vite(), "
PluginsRepl == <<"plugins", ":", SP, "[", "ct.vite", "(", ")", ",", SP>>
\* the replacement of lines 249-254
AliasRepl == <<"alias", ":", SP, "{", NL>> \o Indent(3) \o AliasEntry
\* the replacement of lines 257-262
ResolveRepl ==
  <<"resolve", ":", SP, "{", NL>> \o Indent(2) \o <<"alias", ":", SP, "{", NL>>
  \o Indent(3) \o AliasEntry \o <<NL>> \o Indent(2) \o <<"}", ",">>
\* alias_snippet, lines 240-246
alias_snippet ==
  Indent(1) \o <<"resolve", ":", SP, "{", NL>>
  \o Indent(2) \o <<"alias", ":", SP, "{", NL>>
  \o Indent(3) \o AliasEntry \o <<NL>>
  \o Indent(2) \o <<"}", ",", NL>>
  \o Indent(1) \o <<"}", ",", NL>>

(***************************************************************************)
(* insert_import (lines 128-133).  The pattern is                          *)
(*     ^import[^;\n]*;?\s*$     with re.MULTILINE.                         *)
(* ^ is the start of the text or the place after a newline; $ is the end   *)
(* of the text or the place before a newline; \s* also runs over newlines. *)
(***************************************************************************)
AtLineStart(t, p) == p = 1 \/ t[p - 1] = NL
AtLineEnd(t, p) == p = Len(t) + 1 \/ t[p] = NL

\* [^;\n]* from p: the first place that holds a semicolon or a newline, or
\* the end of the text.
RECURSIVE SkipToSemiOrNl(_, _)
SkipToSemiOrNl(t, p) ==
  IF p <= Len(t) /\ t[p] \notin {";", NL} THEN SkipToSemiOrNl(t, p + 1) ELSE p

\* The position after the match of the import pattern that starts at p, or 0.
\* After "import" and [^;\n]* the optional semicolon is taken when there is
\* one; \s* then takes whitespace, and the match ends at the last place of
\* that run where $ holds.  Giving back part of [^;\n]* never helps: what it
\* gives back holds no newline and ends before the semicolon.
ImportMatchEnd(t, p) ==
  IF ~(AtLineStart(t, p) /\ p <= Len(t) /\ t[p] = "import") THEN 0
  ELSE LET x  == SkipToSemiOrNl(t, p + 1)
           w  == IF x <= Len(t) /\ t[x] = ";" THEN x + 1 ELSE x
           y  == SkipSpace(t, w)
           ends == {q \in w..y : AtLineEnd(t, q)}
       IN  IF ends = {} THEN 0
           ELSE CHOOSE q \in ends : \A r \in ends : r <= q

insert_import(source, import_line) ==
  LET starts == {p \in 1..Len(source) : ImportMatchEnd(source, p) # 0}
  IN  IF starts = {}
      THEN import_line \o <<NL>> \o source
      ELSE LET last == ImportMatchEnd(source, CHOOSE p \in starts : \A q \in starts : q <= p)
           IN  SubSeq(source, 1, last - 1) \o <<NL>> \o import_line
               \o SubSeq(source, last, Len(source))

(***************************************************************************)
(* update_vite_config (lines 214-278), step by step.  A step yields        *)
(* [text, changed, warnings].                                              *)
(***************************************************************************)
Step(text, changed, warns) == [text |-> text, changed |-> changed, warnings |-> warns]

\* lines 224-226
ImportStep(updated) ==
  IF ~Contains(updated, CssTsName)
  THEN Step(insert_import(updated, ImportLine), TRUE, <<>>)
  ELSE Step(updated, FALSE, <<>>)

\* re.sub(pat, repl, t) with no count: every match is replaced
RECURSIVE re_sub_all(_, _, _)
re_sub_all(pat, repl, t) ==
  LET m == re_search(pat, t)
  IN  IF m.found
      THEN SubSeq(t, 1, m.start - 1) \o repl \o re_sub_all(pat, repl, SubSeq(t, m.stop, Len(t)))
      ELSE t

\* lines 228-237 with the count=1 of lines 229 and 233 left out
PluginStepEveryMatch(updated) ==
  IF ~Contains(updated, <<"ct.vite">>)
  THEN LET replaced == re_sub_all(P_sveltekit, SveltekitRepl, updated)
       IN  IF replaced # updated THEN Step(replaced, TRUE, <<>>)
           ELSE IF re_search(P_plugins, updated).found
           THEN Step(re_sub_all(P_plugins, PluginsRepl, updated), TRUE, <<>>)
           ELSE Step(updated, FALSE,
                     <<<<"Could not find a plugins array in vite.config. Add ct.vite() manually.">>>>)
  ELSE Step(updated, FALSE, <<>>)

\* lines 228-237
PluginStep(updated) ==
  IF ~Contains(updated, <<"ct.vite">>)
  THEN LET replaced == re_sub_first(P_sveltekit, SveltekitRepl, updated)
       IN  IF replaced # updated THEN Step(replaced, TRUE, <<>>)
           ELSE IF re_search(P_plugins, updated).found
           THEN Step(re_sub_first(P_plugins, PluginsRepl, updated), TRUE, <<>>)
           ELSE Step(updated, FALSE,
                     <<<<"Could not find a plugins array in vite.config. Add ct.vite() manually.">>>>)
  ELSE Step(updated, FALSE, <<>>)

\* lines 239-271
AliasStep(updated, deno_mode) ==
  IF deno_mode /\ ~Contains(updated, JsrName)
  THEN IF re_search(P_resolve, updated).found
       THEN IF re_search(P_alias, updated).found
            THEN Step(re_sub_first(P_alias, AliasRepl, updated), TRUE, <<>>)
            ELSE Step(re_sub_first(P_resolve, ResolveRepl, updated), TRUE, <<>>)
       ELSE LET define_match == re_search(P_defineConfig, updated)
            IN  IF define_match.found
                THEN Step(SubSeq(updated, 1, define_match.stop - 1) \o <<NL>>
                          \o alias_snippet
                          \o SubSeq(updated, define_match.stop, Len(updated)),
                          TRUE, <<>>)
                ELSE Step(updated, FALSE,
                          <<<<"Could not insert Vite resolve.alias entry. Add it manually.">>>>)
  ELSE Step(updated, FALSE, <<>>)

\* update_vite_config with the test of line 273 left out: the text is
\* written back whether or not a step changed it.
update_vite_config_always_writes(fs, deno_mode) ==
  LET vite_path == find_first(fs, VITE_CONFIG_CANDIDATES)
  IN  IF vite_path = "None"
      THEN Returned(fs, FALSE, <<>>, <<<<"No vite.config file found. Skipped Vite plugin updates.">>>>, <<>>)
      ELSE
      LET read == fs[vite_path].text
          s1   == ImportStep(read)
          s2   == PluginStep(s1.text)
          s3   == AliasStep(s2.text, deno_mode)
          changed == s1.changed \/ s2.changed \/ s3.changed
          warns == s2.warnings \o s3.warnings
          trace == <<read, s1.text, s2.text, s3.text>>
      IN  Returned(WriteText(fs, vite_path, s3.text), changed,
                   IF changed
                   THEN <<<<"Updated with CSS-TS Vite plugin configuration.", vite_path>>>>
                   ELSE <<>>,
                   warns, trace)

\* update_vite_config (lines 214-278)
update_vite_config(fs, deno_mode) ==
  LET vite_path == find_first(fs, VITE_CONFIG_CANDIDATES)
  IN  IF vite_path = "None"
      THEN Returned(fs, FALSE, <<>>, <<<<"No vite.config file found. Skipped Vite plugin updates.">>>>, <<>>)
      ELSE
      LET read == fs[vite_path].text
          s1   == ImportStep(read)
          s2   == PluginStep(s1.text)
          s3   == AliasStep(s2.text, deno_mode)
          changed == s1.changed \/ s2.changed \/ s3.changed
          warns == s2.warnings \o s3.warnings
          trace == <<read, s1.text, s2.text, s3.text>>
      IN  IF changed
          THEN Returned(WriteText(fs, vite_path, s3.text), TRUE,
                        <<<<"Updated with CSS-TS Vite plugin configuration.", vite_path>>>>,
                        warns, trace)
          ELSE Returned(fs, FALSE, <<>>, warns, trace)

(***************************************************************************)
(* The directory and the texts the mutators are run on.                    *)
(***************************************************************************)
FileNames ==
  {"deno.json", "deno.jsonc", "package.json"}
  \cup {VITE_CONFIG_CANDIDATES[i] : i \in 1..Len(VITE_CONFIG_CANDIDATES)}
  \cup LockFiles

EmptyDir == [n \in FileNames |-> NoFile]

\* The tool's own version: a lookup that fails, or one that gives a version.
ToolVersions == {"", "0.1.0"}

\* A compact JSON text of a value, as a hand-written file may hold it.
RECURSIVE DumpCompact(_)
RECURSIVE DumpCompactItems(_, _)
DumpCompact(v) ==
  IF v.t = "str" THEN DumpString(v.s)
  ELSE IF v.t = "atom" THEN <<v.a>>
  ELSE <<(IF v.t = "obj" THEN "{" ELSE "[")>> \o DumpCompactItems(v, 1)
       \o <<(IF v.t = "obj" THEN "}" ELSE "]")>>
DumpCompactItems(v, i) ==
  IF i > Len(v.items) THEN <<>>
  ELSE (IF i > 1 THEN <<",">> ELSE <<>>)
       \o (IF v.t = "obj"
           THEN DumpString(v.items[i].k) \o <<":">> \o DumpCompact(v.items[i].v)
           ELSE DumpCompact(v.items[i]))
       \o DumpCompactItems(v, i + 1)

\* A version a user pinned by hand.
PinnedSpec == JStr(<<"npm:pinned@1.0.0">>)
RequiredKeys == {required_imports("")[i].k : i \in 1..Len(required_imports(""))}

\* An imports object holding the required keys of `present`, each pinned,
\* after an entry of the user's own when `extra`.
PinnedImports(present, extra) ==
  JObj((IF extra THEN <<[k |-> <<"lodash">>, v |-> JStr(<<"npm:lodash@4">>)]>> ELSE <<>>)
       \o [i \in 1..Len(SelectSeq(required_imports(""), LAMBDA e : e.k \in present)) |->
             [k |-> SelectSeq(required_imports(""), LAMBDA e : e.k \in present)[i].k,
              v |-> PinnedSpec]])

ImportsValues ==
  {PinnedImports(present, extra) : present \in SUBSET RequiredKeys, extra \in BOOLEAN}
  \cup {JAtom("null")}
NodeModulesDirValues == {V_auto, JStr(<<"manual">>)}
Item(k, v) == [k |-> k, v |-> v]

\* Deno configs: with or without imports, with or without nodeModulesDir.
DenoConfigs ==
  {JObj(<<Item(K_imports, im), Item(K_nodeModulesDir, nm)>>) :
     im \in ImportsValues, nm \in NodeModulesDirValues}
  \cup {JObj(<<Item(K_imports, im)>>) : im \in ImportsValues}
  \cup {JObj(<<Item(K_nodeModulesDir, nm)>>) : nm \in NodeModulesDirValues}
  \cup {JObj(<<>>)}

\* The text of a Deno config: compact JSON, or JSON with comments and with a
\* string that holds "//" and "/*".
DenoText(config, commented) ==
  IF commented
  THEN <<SLASH, SLASH, SP, "deno", SP, "config", NL>>
       \o DumpCompact(DictSet(config, <<"$schema">>,
                              JStr(<<"https", ":", SLASH, SLASH, "deno.land", SLASH, STAR>>)))
       \o <<SP, SLASH, STAR, SP, "end", SP, STAR, SLASH, NL>>
  ELSE DumpCompact(config)

\* Texts that json.loads refuses, and texts that hold no JSON object.
BrokenJsonTexts ==
  { <<>>, <<"{">>, <<"{", QUOTE, "imports", QUOTE, ":", "{", "}", ",", "}">>,
    <<SLASH, STAR, SP, "{", "}">> }
NonObjectJsonTexts ==
  { <<"[", "]">>, <<"null">>, <<QUOTE, "x", QUOTE>> }

DenoTexts ==
  {DenoText(c, commented) : c \in DenoConfigs, commented \in BOOLEAN}
  \cup BrokenJsonTexts \cup NonObjectJsonTexts

\* Directories with a Deno config: deno.json, deno.jsonc, or both.
DenoDirs ==
  {[EmptyDir EXCEPT ![name] = File(t)] : name \in {"deno.json", "deno.jsonc"}, t \in DenoTexts}
  \cup {[EmptyDir EXCEPT !["deno.json"] = File(<<"{", "}">>), !["deno.jsonc"] = File(t)] :
          t \in BrokenJsonTexts}
  \cup {EmptyDir}

\* Package manifests.
DependenciesValues ==
  { JAtom("null"), JObj(<<>>),
    JObj(<<Item(<<"svelte">>, JStr(<<"^5.0.0">>))>>),
    JObj(<<Item(CssTsName, PinnedSpec)>>),
    JObj(<<Item(<<"svelte">>, JStr(<<"^5.0.0">>)), Item(CssTsName, PinnedSpec)>>) }
PackageManifests ==
  {JObj(<<Item(<<"name">>, JStr(<<"app">>)), Item(K_dependencies, d)>>) :
     d \in DependenciesValues}
  \cup {JObj(<<Item(K_dependencies, d)>>) : d \in DependenciesValues}
  \cup {JObj(<<>>), JObj(<<Item(<<"devDependencies">>, JObj(<<Item(CssTsName, PinnedSpec)>>))>>)}
PackageTexts ==
  {DumpCompact(m) : m \in PackageManifests}
  \cup {json_dumps(m) \o <<NL>> : m \in PackageManifests}
  \cup {<<SLASH, SLASH, SP, "c", NL, "{", "}">>}
  \cup BrokenJsonTexts \cup NonObjectJsonTexts
PackageDirs ==
  {[EmptyDir EXCEPT !["package.json"] = File(t)] : t \in PackageTexts} \cup {EmptyDir}

\* The lines a vite.config is made of.
VitePieces ==
  << <<"import", SP, "a", SP, "from", SP, QUOTE, "a", QUOTE, ";", NL>>,
     <<NL>>,
     <<"export", SP, "default", SP, "defineConfig", "(", "{", NL>>,
     <<SP, SP, "plugins", ":", SP, "[", "sveltekit", "(", ")", "]", ",", NL>>,
     <<SP, SP, "plugins", ":", SP, "[", "other", "(", ")", "]", ",", NL>>,
     <<SP, SP, "resolve", ":", SP, "{", SP, "alias", ":", SP, "{", SP, "}", SP, "}", ",", NL>>,
     <<SP, SP, "resolve", ":", SP, "{", SP, "}", ",", NL>>,
     <<SP, SP, "test", ":", SP, "{", SP, "alias", ":", SP, "{", SP, "}", SP, "}", ",", NL>>,
     <<"}", ")", ";", NL>> >>

RECURSIVE Flatten(_)
Flatten(ss) == IF ss = <<>> THEN <<>> ELSE Head(ss) \o Flatten(Tail(ss))

ViteTexts ==
  UNION {{Flatten([i \in 1..n |-> VitePieces[f[i]]]) : f \in [1..n -> 1..Len(VitePieces)]} :
           n \in 0..MaxSegs}
ViteDirs ==
  {[EmptyDir EXCEPT !["vite.config.ts"] = File(t)] : t \in ViteTexts} \cup {EmptyDir}

(***************************************************************************)
(* The record of one call of a mutator.                                    *)
(***************************************************************************)
Writes(before, after) == {n \in FileNames : after[n].writes # before[n].writes}

CallRecord(fn, deno_mode, before, r) ==
  [fn |-> fn, deno_mode |-> deno_mode, outcome |-> r.outcome, changed |-> r.changed,
   notes |-> r.notes, warnings |-> r.warnings, before |-> before, after |-> r.files,
   trace |-> r.trace]

NoOpts == [deno_mode |-> FALSE, npm_mode |-> FALSE, no_install |-> FALSE]

(***************************************************************************)
(* SpecStrip: strip_json_comments, one loop iteration per step, on every   *)
(* text of at most MaxLen characters.                                      *)
(***************************************************************************)
StripInputs == UNION {[1..n -> StripChars] : n \in 0..MaxLen}

InitStrip ==
  /\ value \in StripInputs
  /\ scan = StripInit
  /\ pc = "strip"
  /\ files = EmptyDir /\ files0 = EmptyDir /\ tool_ver = "" /\ opts = NoOpts
  /\ mode = "None" /\ summary = <<>> /\ warnings = <<>> /\ commands = <<>> /\ log = <<>>

\* lines 56-104: one iteration
StripIterate ==
  /\ pc = "strip"
  /\ scan.i <= Len(value)
  /\ scan' = StripStep(value, scan)
  /\ UNCHANGED <<files, files0, tool_ver, opts, pc, mode, summary, warnings, commands, log, value>>

\* line 106: the loop is over, the output is returned
StripReturn ==
  /\ pc = "strip"
  /\ scan.i > Len(value)
  /\ pc' = "stripped"
  /\ UNCHANGED <<files, files0, tool_ver, opts, mode, summary, warnings, commands, log, value, scan>>

NextStrip == StripIterate \/ StripReturn

SpecStrip == InitStrip /\ [][NextStrip]_vars

(***************************************************************************)
(* SpecMutators: one mutator called MaxCalls times in a row on a           *)
(* directory; pc names the mutator.                                        *)
(***************************************************************************)
InitMutators ==
  /\ \/ pc = "update_deno_config" /\ files \in DenoDirs /\ opts = NoOpts
        /\ tool_ver \in ToolVersions
     \/ pc = "update_package_json" /\ files \in PackageDirs /\ opts = NoOpts
        /\ tool_ver \in ToolVersions
     \/ pc = "update_vite_config" /\ files \in ViteDirs
        /\ opts \in {[NoOpts EXCEPT !.deno_mode = b] : b \in BOOLEAN}
        /\ tool_ver = ""
  /\ files0 = files
  /\ mode = "None" /\ summary = <<>> /\ warnings = <<>> /\ commands = <<>> /\ log = <<>>
  /\ value = <<>> /\ scan = StripInit

CallUpdateDenoConfig ==
  /\ pc = "update_deno_config"
  /\ Len(log) < MaxCalls
  /\ \E r \in {update_deno_config(files, tool_ver)} :
       /\ files' = r.files
       /\ log' = Append(log, CallRecord("update_deno_config", FALSE, files, r))
  /\ UNCHANGED <<files0, tool_ver, opts, pc, mode, summary, warnings, commands, value, scan>>

CallUpdatePackageJson ==
  /\ pc = "update_package_json"
  /\ Len(log) < MaxCalls
  /\ \E r \in {update_package_json(files, tool_ver)} :
       /\ files' = r.files
       /\ log' = Append(log, CallRecord("update_package_json", FALSE, files, r))
  /\ UNCHANGED <<files0, tool_ver, opts, pc, mode, summary, warnings, commands, value, scan>>

CallUpdateViteConfig ==
  /\ pc = "update_vite_config"
  /\ Len(log) < MaxCalls
  /\ \E r \in {update_vite_config(files, opts.deno_mode)} :
       /\ files' = r.files
       /\ log' = Append(log, CallRecord("update_vite_config", opts.deno_mode, files, r))
  /\ UNCHANGED <<files0, tool_ver, opts, pc, mode, summary, warnings, commands, value, scan>>

NextMutators == CallUpdateDenoConfig \/ CallUpdatePackageJson \/ CallUpdateViteConfig

SpecMutators == InitMutators /\ [][NextMutators]_vars

(***************************************************************************)
(* The installer and the mode resolver.                                    *)
(***************************************************************************)
\* detect_package_manager (lines 281-288)
detect_package_manager(fs) ==
  IF fs["pnpm-lock.yaml"].exists THEN "pnpm"
  ELSE IF fs["yarn.lock"].exists THEN "yarn"
  ELSE IF fs["bun.lockb"].exists THEN "bun"
  ELSE "npm"

\* The command run_package_install builds (lines 302-310).
package_install_command(fs) ==
  <<"npx", "--yes", "jsr", "add">>
  \o (IF detect_package_manager(fs) = "pnpm" THEN <<"--pnpm">>
      ELSE IF detect_package_manager(fs) = "yarn" THEN <<"--yarn">>
      ELSE IF detect_package_manager(fs) = "bun" THEN <<"--bun">>
      ELSE <<"--npm">>)
  \o <<"@kt-tools/css-ts">>

\* The command of run_deno_add (line 315).
deno_add_command == <<"deno", "add", "jsr:@kt-tools/css-ts">>

\* resolve_mode with the tests of lines 325 and 327 in the other order and
\* without "and not has_package": a Deno config decides first.
resolve_mode_deno_first(fs, requested) ==
  IF requested # "None" THEN requested
  ELSE LET has_deno    == fs["deno.json"].exists \/ fs["deno.jsonc"].exists
           has_package == fs["package.json"].exists
       IN  IF has_deno THEN "deno"
           ELSE IF has_package THEN "npm"
           ELSE "None"

\* resolve_mode with "npm" for the None of line 331
resolve_mode_npm_default(fs, requested) ==
  IF requested # "None" THEN requested
  ELSE LET has_deno    == fs["deno.json"].exists \/ fs["deno.jsonc"].exists
           has_package == fs["package.json"].exists
       IN  IF has_deno /\ ~has_package THEN "deno"
           ELSE IF has_package THEN "npm"
           ELSE IF has_deno THEN "deno"
           ELSE "npm"

\* resolve_mode (lines 318-331); "None" stands for None.
resolve_mode(fs, requested) ==
  IF requested # "None" THEN requested
  ELSE LET has_deno    == fs["deno.json"].exists \/ fs["deno.jsonc"].exists
           has_package == fs["package.json"].exists
       IN  IF has_deno /\ ~has_package THEN "deno"
           ELSE IF has_package THEN "npm"
           ELSE IF has_deno THEN "deno"
           ELSE "None"

\* requested_mode (line 350)
requested_mode(o) == IF o.deno_mode THEN "deno" ELSE IF o.npm_mode THEN "npm" ELSE "None"

(***************************************************************************)
(* Spec: one run of cli (lines 345-384).  pc is the place in cli:          *)
(*   "cli" the entry, "resolve" line 353, "mutate" the first mutator of    *)
(*   the tuple of line 363 or 370, "vite" its second, "collect" the for    *)
(*   loop over the two results, "install" line 367 or 374, "report" line   *)
(*   377, "done"; "error" after a ClickException, "crashed" after an       *)
(*   exception no one catches.                                             *)
(* The external commands are started and their exit status is any; what    *)
(* they do to the directory is outside this program.                       *)
(***************************************************************************)
CliDenoJson ==
  { NoFile,
    File(DenoText(JObj(<<Item(K_imports, PinnedImports({<<"svelte">>}, FALSE))>>), FALSE)),
    File(<<"{">>),
    File(<<"[", "]">>) }
CliDenoJsonc ==
  { NoFile,
    File(DenoText(JObj(<<Item(K_nodeModulesDir, V_auto)>>), TRUE)) }
CliPackageJson ==
  { NoFile, File(<<"{", "}">>), File(<<"{", ",", "}">>), File(<<"null">>) }
CliViteConfigs ==
  { EmptyDir,
    [EmptyDir EXCEPT !["vite.config.ts"] =
       File(VitePieces[1] \o VitePieces[3] \o VitePieces[4] \o VitePieces[9])],
    [EmptyDir EXCEPT !["vite.config.js"] = File(VitePieces[3] \o VitePieces[9]),
                     !["vite.config.mjs"] = File(VitePieces[5])] }
CliLockFiles == { {}, {"pnpm-lock.yaml"}, {"yarn.lock", "bun.lockb"}, {"bun.lockb"} }

CliDirs ==
  { [n \in FileNames |->
       IF n = "deno.json" THEN dj
       ELSE IF n = "deno.jsonc" THEN dc
       ELSE IF n = "package.json" THEN pj
       ELSE IF n \in LockFiles THEN (IF n \in lk THEN File(<<>>) ELSE NoFile)
       ELSE vc[n]] :
      dj \in CliDenoJson, dc \in CliDenoJsonc, pj \in CliPackageJson,
      vc \in CliViteConfigs, lk \in CliLockFiles }

Init ==
  /\ files \in CliDirs
  /\ files0 = files
  /\ tool_ver = ""
  /\ opts \in [deno_mode : BOOLEAN, npm_mode : BOOLEAN, no_install : BOOLEAN]
  /\ pc = "cli"
  /\ mode = "None" /\ summary = <<>> /\ warnings = <<>> /\ commands = <<>> /\ log = <<>>
  /\ value = <<>> /\ scan = StripInit

\* lines 347-351
CliCheckFlags ==
  /\ pc = "cli"
  /\ pc' = IF opts.deno_mode /\ opts.npm_mode THEN "error" ELSE "resolve"
  /\ UNCHANGED <<files, files0, tool_ver, opts, mode, summary, warnings, commands, log,
                 value, scan>>

\* lines 353-357
CliResolveMode ==
  /\ pc = "resolve"
  /\ mode' = resolve_mode(files, requested_mode(opts))
  /\ pc' = IF mode' = "None" THEN "error" ELSE "mutate"
  /\ UNCHANGED <<files, files0, tool_ver, opts, summary, warnings, commands, log, value, scan>>

\* line 363, the tuple's first element
CliUpdateDenoConfig ==
  /\ pc = "mutate" /\ mode = "deno"
  /\ \E r \in {update_deno_config(files, tool_ver)} :
       /\ files' = r.files
       /\ log' = Append(log, CallRecord("update_deno_config", FALSE, files, r))
       /\ pc' = IF r.outcome = "raised" THEN "crashed" ELSE "vite"
  /\ UNCHANGED <<files0, tool_ver, opts, mode, summary, warnings, commands, value, scan>>

\* line 370, the tuple's first element
CliUpdatePackageJson ==
  /\ pc = "mutate" /\ mode = "npm"
  /\ \E r \in {update_package_json(files, tool_ver)} :
       /\ files' = r.files
       /\ log' = Append(log, CallRecord("update_package_json", FALSE, files, r))
       /\ pc' = IF r.outcome = "raised" THEN "crashed" ELSE "vite"
  /\ UNCHANGED <<files0, tool_ver, opts, mode, summary, warnings, commands, value, scan>>

\* lines 363 and 370, the tuple's second element
CliUpdateViteConfig ==
  /\ pc = "vite"
  /\ \E r \in {update_vite_config(files, mode = "deno")} :
       /\ files' = r.files
       /\ log' = Append(log, CallRecord("update_vite_config", mode = "deno", files, r))
       /\ pc' = IF r.outcome = "raised" THEN "crashed" ELSE "collect"
  /\ UNCHANGED <<files0, tool_ver, opts, mode, summary, warnings, commands, value, scan>>

\* lines 363-366 and 370-373: the for loop over the two results
CliCollect ==
  /\ pc = "collect"
  /\ summary' = summary \o (IF log[1].changed THEN log[1].notes ELSE <<>>)
                        \o (IF log[2].changed THEN log[2].notes ELSE <<>>)
  /\ warnings' = warnings \o log[1].warnings \o log[2].warnings
  /\ pc' = "install"
  /\ UNCHANGED <<files, files0, tool_ver, opts, mode, commands, log, value, scan>>

\* lines 367-368, with run_deno_add (314-315) and run_command (291-296)
CliInstallDeno ==
  /\ pc = "install" /\ mode = "deno"
  /\ IF opts.no_install
     THEN UNCHANGED <<commands, summary>>
     ELSE \E ok \in BOOLEAN :
            /\ commands' = Append(commands, deno_add_command)
            /\ summary' = IF ok THEN Append(summary, <<"Installed @kt-tools/css-ts via deno add.">>)
                          ELSE summary
  /\ pc' = "report"
  /\ UNCHANGED <<files, files0, tool_ver, opts, mode, warnings, log, value, scan>>

\* lines 374-375, with run_package_install (299-311) and run_command (291-296)
CliInstallNpm ==
  /\ pc = "install" /\ mode = "npm"
  /\ IF opts.no_install \/ ~files["package.json"].exists
     THEN UNCHANGED <<commands, summary>>
     ELSE \E ok \in BOOLEAN :
            /\ commands' = Append(commands, package_install_command(files))
            /\ summary' = IF ok THEN Append(summary, <<"Installed @kt-tools/css-ts via jsr add.">>)
                          ELSE summary
  /\ pc' = "report"
  /\ UNCHANGED <<files, files0, tool_ver, opts, mode, warnings, log, value, scan>>

\* lines 377-384
CliReport ==
  /\ pc = "report"
  /\ pc' = "done"
  /\ UNCHANGED <<files, files0, tool_ver, opts, mode, summary, warnings, commands, log,
                 value, scan>>

Next ==
  \/ CliCheckFlags \/ CliResolveMode
  \/ CliUpdateDenoConfig \/ CliUpdatePackageJson \/ CliUpdateViteConfig
  \/ CliCollect \/ CliInstallDeno \/ CliInstallNpm \/ CliReport

Spec == Init /\ [][Next]_vars

(***************************************************************************)
(* C6.  What "the input with exactly the comment characters removed" is,   *)
(* said token by token and without the scanner's flags.                    *)
(***************************************************************************)
\* The smallest member of a non-empty set of numbers.
Least(S) == CHOOSE x \in S : \A y \in S : x <= y

\* The number of backslashes that stand directly before position k, counted
\* back no further than position q.
BackslashesBefore(v, q, k) ==
  Cardinality({j \in q..(k - 1) : \A m \in j..(k - 1) : v[m] = BSLASH})

\* The quote that closes the string whose content starts at q: the first
\* quote not escaped by a backslash (an even number of backslashes stand
\* before it); Len(v) + 1 when the string never closes.
ClosingQuote(v, q) ==
  LET closes == {k \in q..Len(v) : v[k] = QUOTE /\ BackslashesBefore(v, q, k) % 2 = 0}
  IN  IF closes = {} THEN Len(v) + 1 ELSE Least(closes)

\* The next newline at or after q; Len(v) + 1 when there is none.
NextNewline(v, q) ==
  LET nls == {k \in q..Len(v) : v[k] = NL}
  IN  IF nls = {} THEN Len(v) + 1 ELSE Least(nls)

\* The place after the first "*/" at or after q; Len(v) + 1 when there is none.
AfterBlockEnd(v, q) ==
  LET es == {k \in q..(Len(v) - 1) : v[k] = STAR /\ v[k + 1] = SLASH}
  IN  IF es = {} THEN Len(v) + 1 ELSE Least(es) + 2

\* The text from position p on (p outside any string or comment) without its
\* comments: a string is kept whole, "//" is dropped up to the next newline,
\* "/*" is dropped through the matching "*/", anything else is kept.
RECURSIVE WithoutComments(_, _)
WithoutComments(v, p) ==
  IF p > Len(v) THEN <<>>
  ELSE IF v[p] = QUOTE
  THEN LET e == ClosingQuote(v, p + 1)
       IN  SubSeq(v, p, IF e > Len(v) THEN Len(v) ELSE e) \o WithoutComments(v, e + 1)
  ELSE IF v[p] = SLASH /\ p < Len(v) /\ v[p + 1] = SLASH
  THEN WithoutComments(v, NextNewline(v, p + 2))
  ELSE IF v[p] = SLASH /\ p < Len(v) /\ v[p + 1] = STAR
  THEN WithoutComments(v, AfterBlockEnd(v, p + 2))
  ELSE <<v[p]>> \o WithoutComments(v, p + 1)

\* C6: for every input text, strip_json_comments returns the input with
\* exactly the comment characters removed: "//" outside a string removes
\* everything up to but not including the next newline, "/*" outside a
\* string removes everything through the matching "*/", and every character
\* of a double-quoted string (also "//", "/*" and an escaped quote, which
\* does not end the string) and every other character is copied in order.
C6_StripRemovesExactlyComments ==
  pc = "stripped" => scan.output = WithoutComments(value, 1)

\* C6's case: a string that holds an escaped quote and a "/*", followed by a
\* line comment; the string is kept whole and the comment is gone.
C6_Witness ==
  /\ pc = "stripped"
  /\ value = <<QUOTE, BSLASH, QUOTE, QUOTE, SLASH, SLASH>>
  /\ scan.output = <<QUOTE, BSLASH, QUOTE, QUOTE>>

(***************************************************************************)
(* Claims about the mutators, over the calls recorded in log.              *)
(***************************************************************************)
Calls == 1..Len(log)
DenoCalls == {i \in Calls : log[i].fn = "update_deno_config"}
PackageCalls == {i \in Calls : log[i].fn = "update_package_json"}
\* The calls of update_vite_config that found a vite.config and went through
\* its three steps: trace = <<text read, after the import step, after the
\* plugin step, after the alias step>>.
ViteCalls == {i \in Calls : log[i].fn = "update_vite_config" /\ log[i].trace # <<>>}

\* The file a call works on, told from the directory it found: the first
\* candidate that exists, or "None".
TargetOf(e) ==
  IF e.fn = "update_deno_config"
  THEN (IF e.before["deno.json"].exists THEN "deno.json"
        ELSE IF e.before["deno.jsonc"].exists THEN "deno.jsonc" ELSE "None")
  ELSE IF e.fn = "update_package_json"
  THEN (IF e.before["package.json"].exists THEN "package.json" ELSE "None")
  ELSE find_first(e.before, VITE_CONFIG_CANDIDATES)

SameTexts(fs1, fs2) ==
  \A n \in FileNames : fs1[n].exists = fs2[n].exists /\ fs1[n].text = fs2[n].text

\* C1: for each of the three mutators (update_vite_config with a fixed
\* deno_mode) and for every starting content of its target file, running
\* the mutator twice in a row leaves the file with exactly the content it
\* had after the first run, and the second run returns changed = false.
C1_SecondRunReturnsUnchanged ==
  \A i \in Calls :
    i >= 2 => /\ log[i].outcome = "returned"
              /\ ~log[i].changed
              /\ SameTexts(log[i].after, log[i - 1].after)

\* What does hold of a second run: it raises exactly when the first run
\* raised, and if it returns it returns changed = false; either way the
\* files keep the texts the first run left.
SecondRunChangesNothing ==
  \A i \in Calls :
    i >= 2 => /\ log[i].outcome = log[i - 1].outcome
              /\ ~log[i].changed
              /\ SameTexts(log[i].after, log[i - 1].after)

\* The five required keys, as the claim names them.
FiveRequiredKeys ==
  { <<"@kt-tools", SLASH, "css-ts">>, <<"@sveltejs", SLASH, "kit">>,
    <<"@sveltejs", SLASH, "vite-plugin-svelte">>, <<"svelte">>, <<"vite">> }

DefaultSpecifier(k) ==
  LET req == required_imports(tool_ver)
  IN  req[CHOOSE j \in 1..Len(req) : req[j].k = k].v

\* C2: when update_deno_config runs on a parseable Deno config whose
\* imports value is an object, every key already in imports keeps its value
\* in the file the call leaves (also a required package pinned to a custom
\* version), and after the call each of the five required keys is in
\* imports, with the default specifier for exactly those absent before.
C2_ExistingImportsKept ==
  \A i \in DenoCalls :
    LET e == log[i]
        name == TargetOf(e)
        old == IF name = "None" THEN [ok |-> FALSE, v |-> JNone]
               ELSE parse_json_like(e.before[name].text)
    IN  (old.ok /\ IsDict(old.v) /\ IsDict(DictGet(old.v, K_imports))) =>
          LET new == parse_json_like(e.after[name].text)
              was == DictGet(old.v, K_imports)
          IN  /\ e.outcome = "returned"
              /\ new.ok /\ IsDict(new.v) /\ IsDict(DictGet(new.v, K_imports))
              /\ \A j \in 1..Len(was.items) :
                   DictGet(DictGet(new.v, K_imports), was.items[j].k) = was.items[j].v
              /\ \A k \in FiveRequiredKeys :
                   /\ DictHas(DictGet(new.v, K_imports), k)
                   /\ ~DictHas(was, k) =>
                        DictGet(DictGet(new.v, K_imports), k) = DefaultSpecifier(k)

\* C2's case: a commented deno.jsonc with svelte pinned and an entry of the
\* user's own is rewritten; both entries keep their values and vite, absent
\* before, gets its default specifier.
C2_Witness ==
  \E i \in DenoCalls :
    LET e == log[i]
        old == parse_json_like(e.before["deno.jsonc"].text)
        new == parse_json_like(e.after["deno.jsonc"].text)
    IN  /\ TargetOf(e) = "deno.jsonc"
        /\ e.changed
        /\ Contains(e.before["deno.jsonc"].text, <<SLASH, STAR>>)
        /\ old.ok /\ IsDict(old.v) /\ IsDict(DictGet(old.v, K_imports))
        /\ DictGet(DictGet(old.v, K_imports), <<"svelte">>) = PinnedSpec
        /\ DictHas(DictGet(old.v, K_imports), <<"lodash">>)
        /\ ~DictHas(DictGet(old.v, K_imports), <<"vite">>)
        /\ new.ok
        /\ DictGet(DictGet(new.v, K_imports), <<"svelte">>) = PinnedSpec
        /\ DictGet(DictGet(new.v, K_imports), <<"vite">>) = JStr(<<"npm:vite@^7.3.1">>)

(***************************************************************************)
(* C7-C9: the three steps of update_vite_config, said over the text        *)
(* without the code's pattern matcher.                                     *)
(***************************************************************************)
Greatest(S) == CHOOSE x \in S : \A y \in S : y <= x
NonSpace(t) == SelectSeq(t, LAMBDA c : c \notin {SP, NL})
Positions(t, c) == {p \in 1..Len(t) : t[p] = c}
Count(t, c) == Cardinality(Positions(t, c))

\* The stretches <<p, q>> of t that are a word, then the given punctuation,
\* with nothing but whitespace between them.
Stretches(t, word, punct) ==
  {pq \in Positions(t, word) \X Positions(t, punct[Len(punct)]) :
     pq[1] < pq[2] /\ NonSpace(SubSeq(t, pq[1], pq[2])) = <<word>> \o punct}
\* the first of them
First(S) == CHOOSE pq \in S : \A other \in S : pq[1] <= other[1]

\* t with its stretch pq replaced by new
Replaced(t, pq, new) == SubSeq(t, 1, pq[1] - 1) \o new \o SubSeq(t, pq[2] + 1, Len(t))

\* C7: in update_vite_config, when the text does not contain ct.vite: if a
\* zero-argument sveltekit() call exists, only its first occurrence is
\* rewritten to "ct.vite(), sveltekit()"; otherwise, if a "plugins: ["
\* array opening exists, ct.vite() is inserted as the first element of the
\* first such array only; otherwise the step changes nothing and a warning
\* is reported.  In every case the step adds at most one ct.vite().
C7_PluginRegisteredOnce ==
  \A i \in ViteCalls :
    LET before == log[i].trace[2]
        after  == log[i].trace[3]
        calls  == Stretches(before, "sveltekit", <<"(", ")">>)
        arrays == Stretches(before, "plugins", <<":", "[">>)
        warned == \E w \in 1..Len(log[i].warnings) :
                    log[i].warnings[w] = <<"Could not find a plugins array in vite.config. Add ct.vite() manually.">>
    IN  /\ Count(after, "ct.vite") <= Count(before, "ct.vite") + 1
        /\ Count(before, "ct.vite") = 0 =>
             IF calls # {}
             THEN /\ after = Replaced(before, First(calls),
                                      <<"ct.vite", "(", ")", ",", SP, "sveltekit", "(", ")">>)
                  /\ ~warned
             ELSE IF arrays # {}
             THEN /\ after = Replaced(before, First(arrays),
                                      <<"plugins", ":", SP, "[", "ct.vite", "(", ")", ",", SP>>)
                  /\ ~warned
             ELSE after = before /\ warned

\* C7's case: a text with two plugins arrays and no sveltekit() call; only
\* the first array gets ct.vite(), as its first element.
C7_Witness ==
  \E i \in ViteCalls :
    /\ Count(log[i].trace[2], "sveltekit") = 0
    /\ Count(log[i].trace[2], "plugins") = 2
    /\ Count(log[i].trace[3], "ct.vite") = 1
    /\ Contains(log[i].trace[3],
                <<"plugins", ":", SP, "[", "ct.vite", "(", ")", ",", SP, "other", "(", ")", "]">>)
    /\ log[i].changed

\* The lines of a text: what stands between its newlines.
RECURSIVE Lines(_)
Lines(t) ==
  IF Positions(t, NL) = {} THEN <<t>>
  ELSE LET n == Least(Positions(t, NL))
       IN  <<SubSeq(t, 1, n - 1)>> \o Lines(SubSeq(t, n + 1, Len(t)))

\* A line that looks like a top-level import statement: it begins with
\* import and holds no semicolon but, optionally, one at its end.
LooksLikeImport(line) ==
  /\ line # <<>> /\ line[1] = "import"
  /\ \A j \in Positions(line, ";") : \A m \in (j + 1)..Len(line) : line[m] = SP

\* 'import ct from "@kt-tools/css-ts";', as the claim's import statement
TheImportStatement ==
  <<"import", SP, "ct", SP, "from", SP, QUOTE, "@kt-tools", SLASH, "css-ts", QUOTE, ";">>

\* C8: in update_vite_config, when the text does not contain
\* "@kt-tools/css-ts", the import statement is inserted immediately after
\* the last line that looks like a top-level import statement, with every
\* other line of the file kept in its original order; when the file has no
\* such line, the import statement becomes the first line of the file.
C8_ImportAfterLastImportLine ==
  \A i \in ViteCalls :
    LET source  == Lines(log[i].trace[1])
        result  == Lines(log[i].trace[2])
        imports == {k \in 1..Len(source) : LooksLikeImport(source[k])}
    IN  ~Contains(log[i].trace[1], <<"@kt-tools", SLASH, "css-ts">>) =>
          IF imports = {}
          THEN result = <<TheImportStatement>> \o source
          ELSE result = SubSeq(source, 1, Greatest(imports)) \o <<TheImportStatement>>
                        \o SubSeq(source, Greatest(imports) + 1, Len(source))

\* The brace that closes the one at position o; Len(t) + 1 when none does.
ClosingBrace(t, o) ==
  LET closes == {c \in (o + 1)..Len(t) :
                   /\ t[c] = "}"
                   /\ Cardinality({x \in o..c : t[x] = "{"})
                      = Cardinality({x \in o..c : t[x] = "}"})}
  IN  IF closes = {} THEN Len(t) + 1 ELSE Least(closes)

\* '"@kt-tools/css-ts": "@jsr/kt-tools__css-ts",', as the claim's alias entry
TheAliasEntry ==
  <<QUOTE, "@kt-tools", SLASH, "css-ts", QUOTE, ":", SP,
    QUOTE, "@jsr", SLASH, "kt-tools__css-ts", QUOTE, ",">>

\* The alias entry stands in an alias object that lies inside a resolve
\* object of t.
AliasEntryInsideResolve(t) ==
  \E r \in Stretches(t, "resolve", <<":", "{">>) :
      /\ \E al \in Stretches(t, "alias", <<":", "{">>) :
           /\ r[2] < al[1]
           /\ ClosingBrace(t, al[2]) < ClosingBrace(t, r[2])
           /\ \E p \in (al[2] + 1)..ClosingBrace(t, al[2]) :
                /\ p + Len(TheAliasEntry) - 1 < ClosingBrace(t, al[2])
                /\ SubSeq(t, p, p + Len(TheAliasEntry) - 1) = TheAliasEntry

\* C9: update_vite_config adds the module alias only in Deno mode and only
\* when "@jsr/kt-tools__css-ts" is not already in the text: if a resolve
\* object exists, the alias entry is inserted inside that resolve object
\* (into its alias object, or into a newly created one); otherwise, if
\* "defineConfig({" is found, a full resolve/alias block is inserted
\* immediately after its opening brace; otherwise the step leaves the text
\* unchanged and a warning is reported.  In npm mode the step never changes
\* the text.
C9_AliasInsideResolve ==
  \A i \in ViteCalls :
    LET before   == log[i].trace[3]
        after    == log[i].trace[4]
        resolves == Stretches(before, "resolve", <<":", "{">>)
        defines  == Stretches(before, "defineConfig", <<"(", "{">>)
        warned   == \E w \in 1..Len(log[i].warnings) :
                      log[i].warnings[w] = <<"Could not insert Vite resolve.alias entry. Add it manually.">>
    IN  IF ~log[i].deno_mode \/ Contains(before, <<"@jsr", SLASH, "kt-tools__css-ts">>)
        THEN after = before /\ ~warned
        ELSE IF resolves # {}
        THEN /\ AliasEntryInsideResolve(after)
             /\ Count(after, "@jsr") = 1
             /\ ~warned
        ELSE IF \E d \in defines : before[d[1] + 1] = "("
        THEN LET d == First({x \in defines : before[x[1] + 1] = "("})
             IN  /\ SubSeq(after, 1, d[2]) = SubSeq(before, 1, d[2])
                 /\ NonSpace(SubSeq(after, d[2] + 1, Len(after)))
                    = <<"resolve", ":", "{", "alias", ":", "{">> \o NonSpace(TheAliasEntry)
                      \o <<"}", ",", "}", ",">>
                      \o NonSpace(SubSeq(before, d[2] + 1, Len(before)))
                 /\ ~warned
        ELSE after = before /\ warned

\* C10: for every call of any of the three mutators, the returned result
\* has changed = true exactly when the mutator wrote its target file during
\* that call; the file is written at most once per call, no other file is
\* touched, and changed = true implies that the notes hold a note.
C10_ChangedIffWritten ==
  \A i \in Calls :
    LET e == log[i]
        target == TargetOf(e)
    IN  e.outcome = "returned" =>
          /\ e.changed <=> (target # "None" /\ e.after[target].writes # e.before[target].writes)
          /\ \A n \in FileNames : e.after[n].writes <= e.before[n].writes + 1
          /\ \A n \in FileNames \ {target} : e.after[n] = e.before[n]
          /\ e.changed => Len(e.notes) >= 1
          /\ ~e.changed => e.after = e.before

\* C10's case: a call that changed a vite.config returned changed = true
\* with a note and wrote the file once, and the call after it returned
\* changed = false and wrote nothing.
C10_Witness ==
  /\ Len(log) = 2
  /\ log[1].fn = "update_vite_config" /\ log[1].changed /\ Len(log[1].notes) = 1
  /\ log[1].after["vite.config.ts"].writes = 1
  /\ log[1].after["vite.config.ts"].text # log[1].before["vite.config.ts"].text
  /\ ~log[2].changed /\ log[2].after["vite.config.ts"].writes = 1

(***************************************************************************)
(* C3-C5: one run of cli.                                                  *)
(***************************************************************************)
BothFlags == opts.deno_mode /\ opts.npm_mode
NoFlag == ~opts.deno_mode /\ ~opts.npm_mode
HasDenoConfig == files0["deno.json"].exists \/ files0["deno.jsonc"].exists
HasPackageJson == files0["package.json"].exists

\* C3: resolve_mode returns the explicitly requested mode whenever one is
\* given, whatever files exist; with no requested mode it returns npm
\* whenever package.json exists (also when a Deno config exists too), deno
\* when deno.json or deno.jsonc exists and package.json does not, and
\* None exactly when none of the three files exists.
C3_ResolveMode ==
  (pc \notin {"cli", "resolve"} /\ ~BothFlags) =>
    /\ opts.deno_mode => mode = "deno"
    /\ opts.npm_mode => mode = "npm"
    /\ NoFlag /\ HasPackageJson => mode = "npm"
    /\ NoFlag /\ HasDenoConfig /\ ~HasPackageJson => mode = "deno"
    /\ mode = "None" <=> (NoFlag /\ ~HasDenoConfig /\ ~HasPackageJson)

\* C3's case: no flag, a Deno config and a package.json: npm.
C3_Witness ==
  /\ pc = "mutate" /\ NoFlag
  /\ files0["deno.json"].exists /\ files0["deno.jsonc"].exists /\ HasPackageJson
  /\ mode = "npm"

ConfigError == BothFlags \/ (NoFlag /\ ~HasDenoConfig /\ ~HasPackageJson)

\* C4: in every run of the CLI that ends with a fatal configuration error
\* (both --deno and --npm given, or no mode flag given and neither
\* package.json nor a Deno config present), no mutator is called, no file
\* is written and no install command is started before the run aborts; and
\* every run with such a configuration ends with that error.
C4_ConfigErrorBeforeMutation ==
  /\ ConfigError => pc \in {"cli", "resolve", "error"}
  /\ pc = "error" =>
       /\ ConfigError
       /\ log = <<>> /\ commands = <<>> /\ summary = <<>>
       /\ files = files0

\* C4's case: a run without a flag in a directory that has a vite.config
\* and a lock file, but none of the three project files, has aborted.
C4_Witness ==
  /\ pc = "error" /\ NoFlag
  /\ files0["vite.config.ts"].exists /\ files0["pnpm-lock.yaml"].exists
  /\ ~HasDenoConfig /\ ~HasPackageJson
  /\ files = files0 /\ log = <<>>

\* The call's target file was missing, or (Deno config, package.json) was
\* there and could not be parsed.
TargetMissingOrUnparseable(e) ==
  \/ TargetOf(e) = "None"
  \/ e.fn = "update_package_json" /\ ~e.before["package.json"].exists
  \/ e.fn = "update_deno_config" /\ TargetOf(e) # "None"
     /\ ~parse_json_like(e.before[TargetOf(e)].text).ok
  \/ e.fn = "update_package_json" /\ e.before["package.json"].exists
     /\ ~json_loads(e.before["package.json"].text).ok

\* C5: when a mutator's target file is missing, or exists but cannot be
\* parsed (Deno config after comment stripping, package.json as strict
\* JSON), the mutator returns changed = false with exactly one warning,
\* writes no file, and the run does not abort: the run goes on, the other
\* mutator is called and the install step is carried out as in any other
\* run (it starts its command unless --no-install is given or, in npm
\* mode, package.json is missing).
C5_MissingOrUnparseableIsWarning ==
  \A i \in Calls :
    TargetMissingOrUnparseable(log[i]) =>
      /\ log[i].outcome = "returned"
      /\ ~log[i].changed
      /\ Len(log[i].warnings) = 1
      /\ log[i].after = log[i].before
      /\ pc \in {"vite", "collect", "install", "report", "done"}
      /\ pc \in {"collect", "install", "report", "done"} => Len(log) = 2
      /\ pc \in {"install", "report", "done"} =>
           \E w \in 1..Len(warnings) : warnings[w] = log[i].warnings[1]
      /\ pc \in {"report", "done"} =>
           Len(commands) = IF ~opts.no_install /\ (mode = "deno" \/ HasPackageJson)
                           THEN 1 ELSE 0

\* C5's case: package.json could not be parsed; the run went on, changed
\* vite.config, started the install command and finished.
C5_Witness ==
  /\ pc = "done" /\ mode = "npm" /\ Len(log) = 2
  /\ files0["package.json"].exists /\ ~json_loads(files0["package.json"].text).ok
  /\ ~log[1].changed /\ Len(log[1].warnings) = 1
  /\ log[2].changed
  /\ Len(commands) = 1

====
